---- MODULE Spec2Model ----
(***************************************************************************)
(* The CSS selector builders of src/src/05-objects-tasks.js.               *)
(*                                                                         *)
(* A JavaScript string is modelled as the sequence of its characters, so   *)
(* that startsWith, the template literals and join('') are computed and    *)
(* not assumed.  A builder instance is an index into the heap `selectors`. *)
(*                                                                         *)
(* The file holds two versions of the exercise, each with its own          *)
(* definition of the facade cssSelectorBuilder: class CssSelectorBuilder   *)
(* (specification Spec) and class Selector (specification SpecSelector).   *)
(***************************************************************************)
EXTENDS Integers, Sequences, FiniteSets, TLC

\* ------------------------------------------------------------------ bounds
\* Number of API calls in one run.  Every builder is made by one call of the
\* facade, so this also bounds the number of builder instances.
MaxCalls == 4
\* Number of API calls in one run of class Selector, whose combine keeps its
\* operands, so that its strings grow with every call.
MaxSelectorCalls == 3

\* ------------------------------------------------------------------ inputs
Builders == 1..MaxCalls
\* The `value` arguments of element, id, class, attr, pseudoClass, pseudoElement.
Values == {<<"a">>}
\* The `combinator` arguments of combine.
Combinators == {<<"+">>}
Kinds == {"element", "id", "class", "attr", "pseudoClass", "pseudoElement"}

VARIABLES
  selectors,  \* selectors[b]: the array this.selectors of builder b
  nb,         \* builders 1..nb have been constructed
  hist,       \* hist[b]: the calls that produced the fragments now in selectors[b];
              \* for class Selector, the append calls on b that returned
  last,       \* the last API call: its receiver, arguments and outcome; for a
              \* combine, same: the two operands are one builder, consumed:
              \* both operands hold no fragment when the call returns
  ncalls,     \* number of API calls made
  sels        \* sels[b]: the fields of instance b of class Selector, b in 1..nb

vars == <<selectors, nb, hist, last, ncalls, sels>>

\* ----------------------------------------------------------------- strings
\* String.prototype.startsWith
StartsWith(s, p) == Len(s) >= Len(p) /\ SubSeq(s, 1, Len(p)) = p

\* Array.prototype.join('')
RECURSIVE Join(_)
Join(arr) == IF arr = <<>> THEN <<>> ELSE Head(arr) \o Join(Tail(arr))

\* The argument each append method gives to validateOrder.
Prio(kind) ==
  CASE kind = "element"       -> 1
    [] kind = "id"            -> 2
    [] kind = "class"         -> 3
    [] kind = "attr"          -> 4
    [] kind = "pseudoClass"   -> 5
    [] kind = "pseudoElement" -> 6

\* The template literal each append method pushes.
Fragment(kind, value) ==
  CASE kind = "element"       -> value
    [] kind = "id"            -> <<"#">> \o value
    [] kind = "class"         -> <<".">> \o value
    [] kind = "attr"          -> <<"[">> \o value \o <<"]">>
    [] kind = "pseudoClass"   -> <<":">> \o value
    [] kind = "pseudoElement" -> <<":", ":">> \o value

\* ------------------------------------------------- CssSelectorBuilder
\* constructor(): this.selectors = []
NewSelectors == <<>>

\* The three counters of validateOrder's forEach.
IdCount(arr) == Cardinality({i \in 1..Len(arr) : StartsWith(arr[i], <<"#">>)})
PseudoElementCount(arr) ==
  Cardinality({i \in 1..Len(arr) :
                 ~StartsWith(arr[i], <<"#">>) /\ StartsWith(arr[i], <<":", ":">>)})
ElementCount(arr) ==
  Cardinality({i \in 1..Len(arr) :
                 ~StartsWith(arr[i], <<"#">>) /\ ~StartsWith(arr[i], <<":", ":">>)})

\* validateOrder(prio) on a builder whose this.selectors is arr: the error it
\* throws, or "none".
ValidateOrder(arr, prio) ==
  LET hasLast == Len(arr) > 0 /\ arr[Len(arr)] # <<>>   \* lastSelector is truthy
      lastSelector == arr[Len(arr)]
  IN  IF ElementCount(arr) > 1 \/ IdCount(arr) > 1 \/ PseudoElementCount(arr) > 1
        THEN "duplicate"
      ELSE IF \/ (hasLast /\ StartsWith(lastSelector, <<"#">>) /\ prio # 2)
              \/ (hasLast /\ StartsWith(lastSelector, <<":", ":">>) /\ prio # 6)
        THEN "order"
      ELSE "none"

\* this.selectors.push(fragment)
Push(arr, fragment) == Append(arr, fragment)

\* A builder that pushes before it validates (as class Selector assigns its
\* field before validateOrder).
PushThenValidate(arr, kind, value) == Push(arr, Fragment(kind, value))

\* The body of an append method on a builder whose this.selectors is arr:
\* validateOrder first, then the push; a throw leaves the array as it was.
AppendResult(arr, kind, value) ==
  IF ValidateOrder(arr, Prio(kind)) = "none"
    THEN Push(arr, Fragment(kind, value))
    ELSE arr

\* stringify(): what it returns, and what it leaves in this.selectors
StringifyResult(arr) == Join(arr)
\* A stringify that does not reset (as Selector.stringify does not).
StringifyKeeps(arr) == arr
\* A stringify that drops only the first fragment.
StringifyShifts(arr) == IF arr = <<>> THEN <<>> ELSE Tail(arr)
StringifyLeaves(arr) == <<>>

\* The string combine builds from the two stringify() results.
Combined(ls, combinator, rs) == ls \o <<" ">> \o combinator \o <<" ">> \o rs

\* Operands evaluated right to left.
OperandsRightFirst(heap, l, r) ==
  LET rs == StringifyResult(heap[r])
      s1 == [heap EXCEPT ![r] = StringifyLeaves(heap[r])]
      ls == StringifyResult(s1[l])
      s2 == [s1 EXCEPT ![l] = StringifyLeaves(s1[l])]
  IN  [ls |-> ls, rs |-> rs, heap |-> s2]

\* The template literal of combine evaluates selector1.stringify() and then
\* selector2.stringify(): the two strings returned, and the heap they leave.
Operands(heap, l, r) ==
  LET ls == StringifyResult(heap[l])
      s1 == [heap EXCEPT ![l] = StringifyLeaves(heap[l])]
      rs == StringifyResult(s1[r])
      s2 == [s1 EXCEPT ![r] = StringifyLeaves(s1[r])]
  IN  [ls |-> ls, rs |-> rs, heap |-> s2]

\* A facade that hands out one shared builder (the object-literal design the
\* file keeps commented out).
SharedBuilder(n) == 1

\* The facade's `new CssSelectorBuilder()`: the instance after the n made so far.
NewBuilder(n) == n + 1

\* constructor() of class Selector
NewSelector ==
  [elementValue |-> <<>>, idValue |-> <<>>, classValues |-> <<>>,
   attrValue |-> <<>>, pseudoClassValues |-> <<>>, pseudoElementValue |-> <<>>,
   order |-> 0]

NoCall ==
  [op |-> "none", self |-> 0, fresh |-> FALSE, value |-> <<>>, err |-> "none",
   ret |-> <<>>, lret |-> <<>>, rret |-> <<>>, again |-> FALSE,
   aliased |-> FALSE, same |-> FALSE, consumed |-> FALSE]

Init ==
  /\ selectors = [b \in Builders |-> <<>>]
  /\ nb = 0
  /\ hist = [b \in Builders |-> <<>>]
  /\ last = NoCall
  /\ ncalls = 0
  /\ sels = <<>>

\* One call of element, id, class, attr, pseudoClass or pseudoElement on
\* builder b; fresh: b is constructed by the facade for this call.
AppendCall(b, kind, value, fresh) ==
  LET arr == IF fresh THEN NewSelectors ELSE selectors[b]
      h   == IF fresh THEN <<>> ELSE hist[b]
      err == ValidateOrder(arr, Prio(kind))
  IN  /\ ncalls < MaxCalls
      /\ ncalls' = ncalls + 1
      /\ selectors' = [selectors EXCEPT ![b] = AppendResult(arr, kind, value)]
      /\ hist' = [hist EXCEPT
                    ![b] = IF err = "none"
                             THEN Append(h, [kind |-> kind, text |-> value])
                             ELSE h]
      /\ last' = [NoCall EXCEPT !.op = kind, !.self = b, !.fresh = fresh,
                                !.value = value, !.err = err]

\* builder.element(value), builder.id(value), ... on an existing builder
Method ==
  \E b \in 1..nb, kind \in Kinds, value \in Values :
    /\ AppendCall(b, kind, value, FALSE)
    /\ UNCHANGED <<nb, sels>>

\* cssSelectorBuilder.element(value), ...: new CssSelectorBuilder().element(value)
Facade ==
  \E kind \in Kinds, value \in Values :
    /\ NewBuilder(nb) \in Builders
    /\ nb' = nb + 1
    /\ AppendCall(NewBuilder(nb), kind, value, TRUE)
    /\ UNCHANGED sels

\* builder.stringify()
Stringify ==
  \E b \in 1..nb :
    /\ ncalls < MaxCalls
    /\ ncalls' = ncalls + 1
    /\ selectors' = [selectors EXCEPT ![b] = StringifyLeaves(selectors[b])]
    /\ hist' = [hist EXCEPT ![b] = <<>>]
    /\ last' = [NoCall EXCEPT !.op = "stringify", !.self = b,
                              !.ret = StringifyResult(selectors[b]),
                              !.again = (last.op = "stringify" /\ last.self = b)]
    /\ UNCHANGED <<nb, sels>>

\* One call of combine(selector1, combinator, selector2) on builder b.  The
\* callee this.selectors.push is resolved before the arguments are evaluated:
\* when b is one of the operands its stringify() replaces this.selectors by a
\* new array and the push goes to the array b no longer holds.
CombineCall(b, l, combinator, r, fresh) ==
  LET s0  == IF fresh THEN [selectors EXCEPT ![b] = NewSelectors] ELSE selectors
      h0  == IF fresh THEN [hist EXCEPT ![b] = <<>>] ELSE hist
      ops == Operands(s0, l, r)
      ls  == ops.ls
      rs  == ops.rs
      s2  == ops.heap
      h2  == [h0 EXCEPT ![l] = <<>>, ![r] = <<>>]
      frag == Combined(ls, combinator, rs)
      after == IF b \in {l, r} THEN s2
               ELSE [s2 EXCEPT ![b] = Push(s0[b], frag)]
  IN  /\ ncalls < MaxCalls
      /\ ncalls' = ncalls + 1
      /\ selectors' = after
      /\ hist' = IF b \in {l, r} THEN h2
                 ELSE [h2 EXCEPT ![b] = Append(h0[b], [kind |-> "combine", text |-> frag])]
      /\ last' = [NoCall EXCEPT !.op = "combine", !.self = b, !.fresh = fresh,
                                !.value = combinator, !.lret = ls, !.rret = rs,
                                !.aliased = (b \in {l, r}),
                                !.same = (l = r),
                                !.consumed = (after[l] = <<>> /\ after[r] = <<>>)]

\* builder.combine(selector1, combinator, selector2) on an existing builder
Combine ==
  \E b \in 1..nb, l \in 1..nb, r \in 1..nb, combinator \in Combinators :
    /\ CombineCall(b, l, combinator, r, FALSE)
    /\ UNCHANGED <<nb, sels>>

\* cssSelectorBuilder.combine(...): new CssSelectorBuilder().combine(...)
FacadeCombine ==
  \E l \in 1..nb, r \in 1..nb, combinator \in Combinators :
    /\ NewBuilder(nb) \in Builders
    /\ nb' = nb + 1
    /\ CombineCall(NewBuilder(nb), l, combinator, r, TRUE)
    /\ UNCHANGED sels

Next == Method \/ Facade \/ Stringify \/ Combine \/ FacadeCombine

Spec == Init /\ [][Next]_vars

\* ------------------------------------------------------------ class Selector
\* A validateOrder that also refuses a part of the rank of the last one.
SelectorValidateOrderStrict(o, order) ==
  IF o.order < order
    THEN [o |-> [o EXCEPT !.order = order], err |-> "none"]
    ELSE [o |-> o, err |-> "order"]

\* Selector.validateOrder(order) on the fields o: the fields it leaves, and the
\* error it throws, or "none".
SelectorValidateOrder(o, order) ==
  IF o.order <= order
    THEN [o |-> [o EXCEPT !.order = order], err |-> "none"]
    ELSE [o |-> o, err |-> "order"]

\* element, id and pseudoElement refuse a second value before they assign;
\* every method assigns its field and then calls validateOrder.
SelectorAppend(o, kind, value) ==
  CASE kind = "element" ->
         IF o.elementValue # <<>> THEN [o |-> o, err |-> "duplicate"]
         ELSE SelectorValidateOrder([o EXCEPT !.elementValue = value], 1)
    [] kind = "id" ->
         IF o.idValue # <<>> THEN [o |-> o, err |-> "duplicate"]
         ELSE SelectorValidateOrder([o EXCEPT !.idValue = <<"#">> \o value], 2)
    [] kind = "class" ->
         SelectorValidateOrder(
           [o EXCEPT !.classValues = Append(@, <<".">> \o value)], 3)
    [] kind = "attr" ->
         SelectorValidateOrder(
           [o EXCEPT !.attrValue = <<"[">> \o value \o <<"]">>], 4)
    [] kind = "pseudoClass" ->
         SelectorValidateOrder(
           [o EXCEPT !.pseudoClassValues = Append(@, <<":">> \o value)], 5)
    [] kind = "pseudoElement" ->
         IF o.pseudoElementValue # <<>> THEN [o |-> o, err |-> "duplicate"]
         ELSE SelectorValidateOrder(
                [o EXCEPT !.pseudoElementValue = <<":", ":">> \o value], 6)

\* Selector.stringify(): a read of the six fields
SelectorStringify(o) ==
  o.elementValue \o o.idValue \o Join(o.classValues) \o o.attrValue
    \o Join(o.pseudoClassValues) \o o.pseudoElementValue

\* A stringify that resets the selector (as CssSelectorBuilder.stringify does).
SelectorStringifyResets(o) == NewSelector

\* Selector.stringify() assigns no field.
SelectorStringifyLeaves(o) == o

\* Selector.combine assigns the joined string to elementValue.
SelectorCombined(o, ls, combinator, rs) ==
  [o EXCEPT !.elementValue = ls \o <<" ">> \o combinator \o <<" ">> \o rs]

\* One call of an append method on selector b.
SelectorAppendCall(b, kind, value, fresh) ==
  LET o == IF fresh THEN NewSelector ELSE sels[b]
      res == SelectorAppend(o, kind, value)
  IN  /\ ncalls < MaxSelectorCalls
      /\ ncalls' = ncalls + 1
      /\ sels' = IF fresh THEN Append(sels, res.o) ELSE [sels EXCEPT ![b] = res.o]
      /\ hist' = [hist EXCEPT
                    ![b] = IF res.err = "none"
                             THEN Append(hist[b], [kind |-> kind, text |-> value])
                             ELSE hist[b]]
      /\ last' = [NoCall EXCEPT !.op = kind, !.self = b, !.fresh = fresh,
                                !.value = value, !.err = res.err]
      /\ UNCHANGED selectors

\* selector.element(value), ... on an existing selector
SelectorMethod ==
  \E b \in 1..nb, kind \in Kinds, value \in Values :
    /\ SelectorAppendCall(b, kind, value, FALSE)
    /\ UNCHANGED nb

\* cssSelectorBuilder.element(value), ...: new Selector().element(value)
SelectorFacade ==
  \E kind \in Kinds, value \in Values :
    /\ NewBuilder(nb) \in Builders
    /\ nb' = nb + 1
    /\ SelectorAppendCall(NewBuilder(nb), kind, value, TRUE)

\* selector.stringify()
SelectorStringifyCall ==
  \E b \in 1..nb :
    /\ ncalls < MaxSelectorCalls
    /\ ncalls' = ncalls + 1
    /\ sels' = [sels EXCEPT ![b] = SelectorStringifyLeaves(sels[b])]
    /\ last' = [NoCall EXCEPT !.op = "stringify", !.self = b,
                              !.ret = SelectorStringify(sels[b]),
                              !.again = (last.op = "stringify" /\ last.self = b)]
    /\ UNCHANGED <<nb, selectors, hist>>

\* One call of combine(selector1, combinator, selector2) on selector b.
SelectorCombineCall(b, l, combinator, r, fresh) ==
  LET s0 == IF fresh THEN Append(sels, NewSelector) ELSE sels
      ls == SelectorStringify(s0[l])
      rs == SelectorStringify(s0[r])
  IN  /\ ncalls < MaxSelectorCalls
      /\ ncalls' = ncalls + 1
      /\ sels' = [s0 EXCEPT ![b] = SelectorCombined(s0[b], ls, combinator, rs)]
      /\ last' = [NoCall EXCEPT !.op = "combine", !.self = b, !.fresh = fresh,
                                !.value = combinator, !.lret = ls, !.rret = rs,
                                !.aliased = (b \in {l, r}),
                                !.same = (l = r)]
      /\ UNCHANGED <<selectors, hist>>

\* selector.combine(selector1, combinator, selector2) on an existing selector
SelectorCombine ==
  \E b \in 1..nb, l \in 1..nb, r \in 1..nb, combinator \in Combinators :
    /\ SelectorCombineCall(b, l, combinator, r, FALSE)
    /\ UNCHANGED nb

\* cssSelectorBuilder.combine(...): new Selector().combine(...)
SelectorFacadeCombine ==
  \E l \in 1..nb, r \in 1..nb, combinator \in Combinators :
    /\ NewBuilder(nb) \in Builders
    /\ nb' = nb + 1
    /\ SelectorCombineCall(NewBuilder(nb), l, combinator, r, TRUE)

NextSelector ==
  \/ SelectorMethod
  \/ SelectorFacade
  \/ SelectorStringifyCall
  \/ SelectorCombine
  \/ SelectorFacadeCombine

SpecSelector == Init /\ [][NextSelector]_vars

\* ------------------------------------------------------------ consistency
\* hist is the record of the calls behind the fragments in selectors.
HistMatches ==
  \A b \in Builders :
    /\ Len(hist[b]) = Len(selectors[b])
    /\ \A i \in 1..Len(hist[b]) :
         selectors[b][i] = IF hist[b][i].kind = "combine" THEN hist[b][i].text
                           ELSE Fragment(hist[b][i].kind, hist[b][i].text)

TypeOK ==
  /\ nb \in 0..MaxCalls
  /\ ncalls \in 0..MaxCalls
  /\ nb <= ncalls
  /\ last.op \in Kinds \cup {"none", "stringify", "combine"}
  /\ last.err \in {"none", "duplicate", "order"}
  /\ \A b \in Builders : b > nb => selectors[b] = <<>>

\* ------------------------------------------------------------------ claims
\* The rank the specification gives each kind of fragment.
Rank(kind) ==
  CASE kind = "element"       -> 1
    [] kind = "id"            -> 2
    [] kind = "class"         -> 3
    [] kind = "attr"          -> 4
    [] kind = "pseudoClass"   -> 5
    [] kind = "pseudoElement" -> 6

\* The text the specification gives the fragment of one call.
Expected(call) ==
  CASE call.kind = "element"       -> call.text
    [] call.kind = "id"            -> <<"#">> \o call.text
    [] call.kind = "class"         -> <<".">> \o call.text
    [] call.kind = "attr"          -> <<"[">> \o call.text \o <<"]">>
    [] call.kind = "pseudoClass"   -> <<":">> \o call.text
    [] call.kind = "pseudoElement" -> <<":", ":">> \o call.text
    [] call.kind = "combine"       -> call.text

\* The concatenation, in call order, of the fragments of the calls h.
RECURSIVE Render(_)
Render(h) == IF h = <<>> THEN <<>> ELSE Expected(Head(h)) \o Render(Tail(h))

CountKind(h, kind) == Cardinality({i \in 1..Len(h) : h[i].kind = kind})

\* h is a call sequence the specification allows: simple fragments only, in
\* non-decreasing rank order, at most one element, id and pseudo-element.
ValidChain(h) ==
  /\ \A i \in 1..Len(h) : h[i].kind \in Kinds
  /\ \A i, j \in 1..Len(h) : i < j => Rank(h[i].kind) <= Rank(h[j].kind)
  /\ CountKind(h, "element") <= 1
  /\ CountKind(h, "id") <= 1
  /\ CountKind(h, "pseudoElement") <= 1

\* C1: a call sequence with at most one element, one id and one
\* pseudo-element, in non-decreasing rank order, raises no error, and the
\* stringify() after it returns the fragments concatenated in call order with
\* the prefixes '#', '.', '[...]', ':' and '::'.
C1_ValidChainAccepted ==
  [][/\ (/\ last'.op \in Kinds
         /\ ValidChain(Append(IF last'.fresh THEN <<>> ELSE hist[last'.self],
                              [kind |-> last'.op, text |-> last'.value])))
        => last'.err = "none"
     /\ (last'.op = "stringify" /\ ValidChain(hist[last'.self]))
        => last'.ret = Render(hist[last'.self])]_vars

\* C2: with no stringify() in between, a second element(), id() or
\* pseudoElement() call on one builder raises an error.
C2_SecondOfAKindRaises ==
  [][(/\ last'.op \in {"element", "id", "pseudoElement"}
      /\ ~last'.fresh
      /\ CountKind(hist[last'.self], last'.op) >= 1)
     => last'.err # "none"]_vars

\* C3: with no stringify() in between, appending a fragment of rank r after a
\* fragment of rank greater than r raises an error.
C3_LowerRankAfterHigherRaises ==
  [][(/\ last'.op \in Kinds
      /\ ~last'.fresh
      /\ \E i \in 1..Len(hist[last'.self]) :
           /\ hist[last'.self][i].kind \in Kinds
           /\ Rank(hist[last'.self][i].kind) > Rank(last'.op))
     => last'.err # "none"]_vars

\* C4: class(), attr() or pseudoClass(), called any number of times in a row on
\* a builder whose earlier fragments all have lower or equal rank, never raises.
C4_RepeatableNeverRaises ==
  [][(/\ last'.op \in {"class", "attr", "pseudoClass"}
      /\ ~last'.fresh
      /\ ValidChain(hist[last'.self])
      /\ \A i \in 1..Len(hist[last'.self]) :
           Rank(hist[last'.self][i].kind) <= Rank(last'.op))
     => last'.err = "none"]_vars

\* C5: in every reachable state a builder holds at most one element fragment,
\* at most one id fragment and at most one pseudo-element fragment.
C5_AtMostOneOfEach ==
  \A b \in Builders :
    /\ CountKind(hist[b], "element") <= 1
    /\ CountKind(hist[b], "id") <= 1
    /\ CountKind(hist[b], "pseudoElement") <= 1

\* C6: stringify() returns the concatenation of all fragments in append order
\* and leaves the fragment sequence empty; a second stringify() with no append
\* in between returns the empty string.
C6_DestructiveRead ==
  [][last'.op = "stringify"
     => /\ last'.ret = Render(hist[last'.self])
        /\ selectors'[last'.self] = <<>>
        /\ (last'.again => last'.ret = <<>>)]_vars

\* Two stringify() calls in a row on the only builder, made by the facade.
C6_Witness ==
  last.op = "stringify" /\ last.again /\ last.ret = <<>> /\ nb = 1 /\ ncalls = 3

\* C7: when an append call raises an error the fragment sequence of the
\* builder is the same as before the call.
C7_FailedAppendLeavesFragments ==
  [][(last'.op \in Kinds /\ last'.err # "none")
     => selectors' = selectors]_vars

\* An append call was rejected on a builder that holds fragments.
C7_Witness ==
  last.op \in Kinds /\ last.err # "none" /\ selectors[last.self] # <<>>

\* C9: after stringify() the builder is as the constructor leaves it, the
\* append call made next succeeds, and builders with the same calls since
\* construction or since their last stringify() hold the same fragments.
C9_ResetByStringify ==
  [][/\ last'.op = "stringify" => selectors'[last'.self] = NewSelectors
     /\ (last'.op \in Kinds /\ ~last'.fresh /\ selectors[last'.self] = <<>>)
        => /\ last'.err = "none"
           /\ selectors'[last'.self] =
                <<Expected([kind |-> last'.op, text |-> last'.value])>>
     /\ \A b1, b2 \in 1..nb' :
          hist'[b1] = hist'[b2] => selectors'[b1] = selectors'[b2]]_vars

\* An append was accepted on a builder that existed and was empty.
C9_Witness ==
  /\ last.op \in Kinds /\ ~last.fresh /\ last.err = "none"
  /\ Len(selectors[last.self]) = 1

\* C8: combine(left, combinator, right) appends exactly one fragment: the
\* string left.stringify() returned, one space, the combinator, one space,
\* the string right.stringify() returned.
C8_CombineAppendsOneFragment ==
  [][last'.op = "combine"
     => selectors'[last'.self] =
          Append(IF last'.fresh THEN <<>> ELSE selectors[last'.self],
                 last'.lret \o <<" ">> \o last'.value \o <<" ">> \o last'.rret)]_vars

\* The part of C8 the code keeps: a combine whose receiver is not one of its
\* operands (every facade call is one) appends that one fragment.
C8_CombineOnAnotherBuilder ==
  [][(last'.op = "combine" /\ ~last'.aliased)
     => selectors'[last'.self] =
          Append(IF last'.fresh THEN <<>> ELSE selectors[last'.self],
                 last'.lret \o <<" ">> \o last'.value \o <<" ">> \o last'.rret)]_vars

\* combine(element('a').id('a'), '+', element('a')) built by the facade.
C8_Example ==
  /\ last.op = "combine" /\ last.fresh
  /\ selectors[last.self] = << <<"a", "#", "a", " ", "+", " ", "a">> >>

\* C10: every facade call returns a newly created builder that holds only the
\* fragment of that call, and an append or a stringify on one builder changes
\* the fragments of no other builder.
C10_FacadeMakesNewBuilder ==
  [][/\ last'.fresh
        => /\ last'.self \notin 1..nb
           /\ nb' = nb + 1
           /\ selectors'[last'.self] =
                << IF last'.op = "combine"
                     THEN last'.lret \o <<" ">> \o last'.value \o <<" ">> \o last'.rret
                     ELSE Expected([kind |-> last'.op, text |-> last'.value]) >>
     /\ last'.op \in Kinds \cup {"stringify"}
        => \A b \in Builders \ {last'.self} : selectors'[b] = selectors[b]]_vars

\* The facade made a builder while an earlier builder still holds fragments.
C10_Witness ==
  /\ last.fresh /\ last.op \in Kinds /\ last.self = 2
  /\ selectors[1] # <<>> /\ Len(selectors[2]) = 1

\* C8 and C10 on the facade of class Selector: a combine made by the facade
\* stringifies to the joined string, every facade call makes a new selector
\* that stringifies to the fragment of that call, and no call changes the
\* fields of a selector other than its receiver.
SelectorFacadeMakesNewSelector ==
  [][/\ last'.fresh
        => /\ last'.self \notin 1..nb
           /\ nb' = nb + 1
           /\ SelectorStringify(sels'[last'.self]) =
                IF last'.op = "combine"
                  THEN last'.lret \o <<" ">> \o last'.value \o <<" ">> \o last'.rret
                  ELSE Expected([kind |-> last'.op, text |-> last'.value])
     /\ \A b \in (1..nb) \ {last'.self} : sels'[b] = sels[b]]_vars

\* C11: in class Selector attr is repeatable: after attr(a1), ..., attr(an) the
\* string stringify() returns contains every '[ai]', in call order.
IsAttr(call) == call.kind = "attr"

IsSubstring(p, str) ==
  \E i \in 0..(Len(str) - Len(p)) : SubSeq(str, i + 1, i + Len(p)) = p

C11_AttrRepeatable ==
  \A b \in DOMAIN sels :
    IsSubstring(Render(SelectSeq(hist[b], IsAttr)), SelectorStringify(sels[b]))

\* C12: combine is not rank-checked: on a builder in any state it raises no
\* error and adds its one fragment after the fragments the builder holds.
C12_CombineNeverRaisesAndAppends ==
  [][last'.op = "combine"
     => LET pre == IF last'.fresh THEN <<>> ELSE selectors[last'.self]
            now == selectors'[last'.self]
        IN  /\ last'.err = "none"
            /\ Len(now) = Len(pre) + 1
            /\ SubSeq(now, 1, Len(pre)) = pre
            /\ hist'[last'.self][Len(now)].kind = "combine"]_vars

\* C13: on a builder whose fragments are all combine-produced, element(), id()
\* and pseudoElement() are not rejected as duplicates.
C13_CombineFragmentsNotDuplicates ==
  [][(/\ last'.op \in {"element", "id", "pseudoElement"}
      /\ ~last'.fresh
      /\ hist[last'.self] # <<>>
      /\ \A i \in 1..Len(hist[last'.self]) : hist[last'.self][i].kind = "combine")
     => last'.err # "duplicate"]_vars

\* C14: when an append call of class Selector raises an error, every field of
\* the selector is as before the call, and so is what stringify() returns.
C14_FailedCallLeavesFields ==
  [][(last'.op \in Kinds /\ last'.err # "none")
     => /\ sels'[last'.self] = sels[last'.self]
        /\ SelectorStringify(sels'[last'.self]) = SelectorStringify(sels[last'.self])]_vars

\* The largest rank among the calls h, 0 when there is none.
MaxRank(h) ==
  IF h = <<>> THEN 0
  ELSE CHOOSE m \in 1..6 :
         /\ \E i \in 1..Len(h) : Rank(h[i].kind) = m
         /\ \A i \in 1..Len(h) : Rank(h[i].kind) <= m

\* Selector b keeps to the high-water mark over the step: order is in 0..6,
\* does not decrease, and is the largest rank among the calls that returned.
OrderIsHighWaterMark ==
  \A b \in DOMAIN sels' :
    /\ sels'[b].order \in 0..6
    /\ b \in DOMAIN sels => sels'[b].order >= sels[b].order
    /\ sels'[b].order = MaxRank(hist'[b])

\* The order of the receiver before the call.
OrderBefore == IF last'.fresh THEN 0 ELSE sels[last'.self].order

\* The call is an element, id or pseudoElement call on a selector whose field
\* of that kind holds a non-empty string.
FieldAlreadySet ==
  /\ ~last'.fresh
  /\ \/ last'.op = "element" /\ sels[last'.self].elementValue # <<>>
     \/ last'.op = "id" /\ sels[last'.self].idValue # <<>>
     \/ last'.op = "pseudoElement" /\ sels[last'.self].pseudoElementValue # <<>>

\* C15 as stated: order is a high-water mark, an append at rank r raises the
\* ordering error exactly when r is smaller than order, and a repeatable
\* append at rank r >= order succeeds.
C15_OrderErrorExactlyBelowOrder ==
  [][/\ OrderIsHighWaterMark
     /\ last'.op \in Kinds
        => /\ last'.err = "order" <=> Rank(last'.op) < OrderBefore
           /\ (last'.op \in {"class", "attr", "pseudoClass"}
               /\ Rank(last'.op) >= OrderBefore) => last'.err = "none"]_vars

\* C15 as amended: an append at rank r smaller than order raises an error, the
\* ordering error exactly when the call is not refused first as a second
\* element, id or pseudo-element.
C15_OrderErrorUnlessDuplicate ==
  [][/\ OrderIsHighWaterMark
     /\ last'.op \in Kinds
        => /\ Rank(last'.op) < OrderBefore => last'.err # "none"
           /\ last'.err = "order"
                <=> (Rank(last'.op) < OrderBefore /\ ~FieldAlreadySet)
           /\ last'.err = "duplicate" <=> FieldAlreadySet
           /\ (last'.op \in {"class", "attr", "pseudoClass"}
               /\ Rank(last'.op) >= OrderBefore) => last'.err = "none"]_vars

\* A call of rank below order was refused with the ordering error, on a
\* selector whose order had reached the pseudo-class rank or more.
C15_Witness ==
  /\ last.op \in Kinds /\ last.err = "order"
  /\ last.self \in DOMAIN sels /\ sels[last.self].order >= 5

\* C16: combine consumes its operands: when it returns both hold no fragment;
\* left is stringified before right, so that with one builder as both
\* operands the right-hand string is empty.
C16_CombineConsumesOperands ==
  last.op = "combine"
    => /\ last.consumed
       /\ last.same => last.rret = <<>>

\* One builder that holds fragments was passed as both operands.
C16_Witness ==
  /\ last.op = "combine" /\ last.same /\ last.consumed
  /\ last.lret # <<>> /\ last.rret = <<>>

\* C17: Selector.stringify() changes no field: a stringify() right after
\* another returns the same string, and what was appended stays in force.
C17_StringifyIsPureRead ==
  [][(last'.op = "stringify" /\ last'.self \in DOMAIN sels)
     => /\ sels' = sels
        /\ last'.again => last'.ret = last.ret
        /\ last'.ret = SelectorStringify(sels'[last'.self])]_vars

\* Two stringify() calls in a row on a selector that holds a fragment.
C17_Witness ==
  /\ last.op = "stringify" /\ last.again /\ last.ret # <<>>
  /\ last.self \in DOMAIN sels

====
